---------------------------- MODULE Spec2Model ----------------------------
(***************************************************************************)
(* Model of the email-forwarding Azure Function of Outlookaddin2.          *)
(*                                                                         *)
(* Two variants of the handler exist in the repository:                    *)
(*   "legacy"  src/forwardEmail/index.js  (EWS id translation, then a      *)
(*             metadata search by subject + content snippet as fallback)   *)
(*   "subjrec" src/unnamed/part_000       (metadata search only, by        *)
(*             subject + recipients)                                       *)
(*                                                                         *)
(* A JavaScript string is a sequence of one-character strings; the value   *)
(* undefined is the one-element sequence Undefined.  The Graph backend is  *)
(* the environment: every awaited call is answered nondeterministically.   *)
(* Each action is one run-to-completion step of the handler: it consumes   *)
(* the answer of the outstanding call and runs the code up to the next     *)
(* await (where it issues the next call) or up to the response.            *)
(*                                                                         *)
(* Three log statements of src/forwardEmail/index.js (lines 238, 278 and   *)
(* 282) open a template literal with a backtick and close it with a double *)
(* quote; src/unnamed/part_000 has the same statements closed with a       *)
(* backtick.  The model reads them as the log statements they are in       *)
(* part_000: they change no state.                                         *)
(***************************************************************************)
EXTENDS Naturals, Sequences, FiniteSets

VARIABLES
    variant,             \* which of the two handlers runs
    req,                 \* the request: authorization header and body fields
    pc,                  \* position of the handler (the await it is parked at)
    calls,               \* backend calls issued so far, in order
    translateResponse,   \* outcome of /me/translateExchangeIds
    messageIdToProcess,  \* let messageIdToProcess
    initialODataFilter,  \* the filter text handed to .filter()
    response,            \* outcome of the list-messages call
    validatedMessages,   \* const validatedMessages (after the loop and sort)
    message,             \* the message returned by get-message
    attachments,         \* let attachments
    attIdx,              \* index of the attachment whose POST is outstanding
    attachErrors,        \* indexes of the attachments whose POST threw (logged)
    draftMessage,        \* id of the created draft
    res,                 \* context.res
    answered,            \* number of backend calls whose answer the handler got
    context              \* is a logging context passed to searchMessageByMetadata?

vars == <<variant, req, pc, calls, translateResponse, messageIdToProcess,
          initialODataFilter, response, validatedMessages, message,
          attachments, attIdx, attachErrors, draftMessage, res, answered,
          context>>

-----------------------------------------------------------------------------
(* Bounds of the model *)

MaxSubjLen == 2
MaxRcptLen == 3
MaxCands == 3
MaxTime == 3
MaxAtt == 2

-----------------------------------------------------------------------------
(* JavaScript strings *)

Undefined == <<"undefined">>

\* JS truthiness of a value that is a string or undefined
Truthy(s) == s # Undefined /\ s # <<>>

Str(alphabet, n) == UNION {[1..k -> alphabet] : k \in 0..n}

Range(s) == {s[i] : i \in 1..Len(s)}

IsWhitespace(c) == c = " "

RECURSIVE trimStart(_)
trimStart(s) ==
    IF s # <<>> /\ IsWhitespace(Head(s)) THEN trimStart(Tail(s)) ELSE s

RECURSIVE trimEnd(_)
trimEnd(s) ==
    IF s # <<>> /\ IsWhitespace(s[Len(s)])
    THEN trimEnd(SubSeq(s, 1, Len(s) - 1))
    ELSE s

\* String.prototype.trim
trim(s) == trimEnd(trimStart(s))

lowerChar(c) ==
    CASE c = "A" -> "a"
      [] c = "B" -> "b"
      [] c = "C" -> "c"
      [] OTHER -> c

\* String.prototype.toLowerCase
toLowerCase(s) == [i \in 1..Len(s) |-> lowerChar(s[i])]

\* str.replace(/'/g, "''")
RECURSIVE replaceQuotes(_)
replaceQuotes(s) ==
    IF s = <<>> THEN <<>>
    ELSE IF Head(s) = "'" THEN <<"'", "'">> \o replaceQuotes(Tail(s))
    ELSE <<Head(s)>> \o replaceQuotes(Tail(s))

\* str.split(';'): the pieces between separators, empty pieces included
RECURSIVE splitAcc(_, _, _)
splitAcc(s, cur, acc) ==
    IF s = <<>> THEN Append(acc, cur)
    ELSE IF Head(s) = ";" THEN splitAcc(Tail(s), <<>>, Append(acc, cur))
    ELSE splitAcc(Tail(s), Append(cur, Head(s)), acc)

split(s) == splitAcc(s, <<>>, <<>>)

-----------------------------------------------------------------------------
(* searchMessageByMetadata: the filter *)

\* encodeOData without its .trim()
encodeOData_NoTrim(str) == IF Truthy(str) THEN replaceQuotes(str) ELSE <<>>

\* encodeOData without its .replace(): quotes are embedded as they are
encodeOData_NoEscape(str) == IF Truthy(str) THEN trim(str) ELSE <<>>

\* const encodeOData = (str) => str ? str.replace(/'/g, "''").trim() : "";
encodeOData(str) == IF Truthy(str) THEN trim(replaceQuotes(str)) ELSE <<>>

\* the recipient list without its .filter(r => r): empty pieces are kept
fullRecipientList_NoFilter(recipientsFromRequest) ==
    IF Truthy(recipientsFromRequest)
    THEN LET pieces == split(recipientsFromRequest)
         IN [i \in 1..Len(pieces) |-> toLowerCase(trim(pieces[i]))]
    ELSE <<>>

\* recipientsFromRequest ? split(';').map(trim, toLowerCase).filter(r => r) : []
fullRecipientList(recipientsFromRequest) ==
    IF Truthy(recipientsFromRequest)
    THEN LET pieces == split(recipientsFromRequest)
             cleaned == [i \in 1..Len(pieces) |-> toLowerCase(trim(pieces[i]))]
         IN SelectSeq(cleaned, LAMBDA r : r # <<>>)
    ELSE <<>>

subjectClause(lit) == <<"subject eq ", "'">> \o lit \o <<"'">>

containsClause(lit) == <<"contains(body/content, ", "'">> \o lit \o <<"'", ")">>

recipientClause(lit) ==
    <<"toRecipients/any(r: r/emailAddress/address eq ", "'">> \o lit \o <<"'", ")">>

\* initialODataFilterParts of the legacy variant: subject and content snippet
filterPartsLegacy(subjectFromRequest, contentSnippetFromRequest) ==
    LET encodedSubject == encodeOData(subjectFromRequest)
        encodedContentSnippet == encodeOData(contentSnippetFromRequest)
    IN (IF encodedSubject # <<>> THEN <<subjectClause(encodedSubject)>> ELSE <<>>)
       \o (IF encodedContentSnippet # <<>>
           THEN <<containsClause(encodedContentSnippet)>> ELSE <<>>)

\* filter parts that name the first recipient besides the subject
filterPartsSubjRec_Both(subjectFromRequest, recipientsFromRequest) ==
    LET encodedSubject == encodeOData(subjectFromRequest)
        list == fullRecipientList(recipientsFromRequest)
    IN (IF encodedSubject # <<>> THEN <<subjectClause(encodedSubject)>> ELSE <<>>)
       \o (IF Len(list) > 0 /\ encodeOData(list[1]) # <<>>
           THEN <<recipientClause(encodeOData(list[1]))>> ELSE <<>>)

\* initialODataFilterParts of the subject+recipients variant:
\* the subject when there is one, else the first recipient
filterPartsSubjRec(subjectFromRequest, recipientsFromRequest) ==
    LET encodedSubject == encodeOData(subjectFromRequest)
        list == fullRecipientList(recipientsFromRequest)
    IN IF encodedSubject # <<>> THEN <<subjectClause(encodedSubject)>>
       ELSE IF Len(list) > 0 /\ encodeOData(list[1]) # <<>>
            THEN <<recipientClause(encodeOData(list[1]))>>
       ELSE <<>>

initialODataFilterParts(v, r) ==
    IF v = "legacy" THEN filterPartsLegacy(r.subject, r.contentSnippet)
    ELSE filterPartsSubjRec(r.subject, r.recipients)

\* the parts joined by ' or '
RECURSIVE joinAnd_Or(_)
joinAnd_Or(parts) ==
    IF parts = <<>> THEN <<>>
    ELSE IF Len(parts) = 1 THEN parts[1]
    ELSE parts[1] \o <<" or ">> \o joinAnd_Or(Tail(parts))

\* parts.join(' and ')
RECURSIVE joinAnd(_)
joinAnd(parts) ==
    IF parts = <<>> THEN <<>>
    ELSE IF Len(parts) = 1 THEN parts[1]
    ELSE parts[1] \o <<" and ">> \o joinAnd(Tail(parts))

-----------------------------------------------------------------------------
(* searchMessageByMetadata: validation of the candidates and selection *)

\* new Set(message.toRecipients.map(address ? address.toLowerCase() : null).filter(Boolean))
messageRecipientsSet(m) ==
    {toLowerCase(m.toRecipients[i]) :
        i \in {j \in 1..Len(m.toRecipients) : Truthy(m.toRecipients[j])}}

\* recipient validation that is content with one expected recipient found
recipientsMatch_Any(list, m) ==
    IF Len(list) > 0
    THEN IF Len(m.toRecipients) > 0
         THEN \E i \in 1..Len(list) : list[i] \in messageRecipientsSet(m)
         ELSE FALSE
    ELSE TRUE

\* let recipientsMatch ... (the loop over fullRecipientList with its break)
recipientsMatch(list, m) ==
    IF Len(list) > 0
    THEN IF Len(m.toRecipients) > 0
         THEN \A i \in 1..Len(list) : list[i] \in messageRecipientsSet(m)
         ELSE FALSE
    ELSE TRUE

\* let subjectMatch ... (subject+recipients variant only)
subjectMatch(subjectFromRequest, m) ==
    LET encodedSubject == encodeOData(subjectFromRequest)
        messageSubjectNormalized ==
            IF Truthy(m.subject) THEN toLowerCase(trim(m.subject)) ELSE <<>>
    IN IF Truthy(subjectFromRequest)
       THEN messageSubjectNormalized =
                (IF encodedSubject # <<>> THEN toLowerCase(encodedSubject) ELSE <<>>)
       ELSE TRUE

\* the body of for (const message of response.value): is the message pushed?
passesValidation(v, r, m) ==
    IF v = "legacy"
    THEN recipientsMatch(fullRecipientList(r.recipients), m)
    ELSE /\ subjectMatch(r.subject, m)
         /\ recipientsMatch(fullRecipientList(r.recipients), m)

\* validatedMessages.sort((a, b) => new Date(b.receivedDateTime) - new Date(a.receivedDateTime))
\* Array.prototype.sort is stable: equal timestamps keep their input order.
insertByReceivedDesc(sorted, x) ==
    LET k == Cardinality({i \in 1..Len(sorted) :
                            sorted[i].receivedDateTime >= x.receivedDateTime})
    IN SubSeq(sorted, 1, k) \o <<x>> \o SubSeq(sorted, k + 1, Len(sorted))

RECURSIVE sortAcc(_, _)
sortAcc(rest, acc) ==
    IF rest = <<>> THEN acc
    ELSE sortAcc(Tail(rest), insertByReceivedDesc(acc, Head(rest)))

\* no sort: the validated messages stay in the order the backend gave
sortByReceivedDesc_Identity(s) == s

sortByReceivedDesc(s) == sortAcc(s, <<>>)

\* every candidate is pushed, validated or not
validate_NoFilter(v, r, value) == sortByReceivedDesc(value)

\* validatedMessages after the loop and the sort
validate(v, r, value) ==
    sortByReceivedDesc(SelectSeq(value, LAMBDA m : passesValidation(v, r, m)))

NullId == "null"

Falsy(id) == id = NullId

\* return latestMatchingMessage.id;  /  return null;
searchResult(validated) ==
    IF Len(validated) > 0 THEN validated[1].id ELSE NullId

-----------------------------------------------------------------------------
(* The handler: its local state as a record, and the pieces of its code *)

\* a backend call: the operation, the message or draft id in its URL, its
\* text argument (the filter, or the id to translate) and its posted attachment
Call(op, target, arg, data) ==
    [op |-> op, target |-> target, arg |-> arg, data |-> data]

NoData == [name |-> "", type |-> "none", contentBytes |-> FALSE, item |-> FALSE,
           sourceUrl |-> FALSE, providerType |-> FALSE]

NoRes == [status |-> 0, success |-> FALSE, error |-> <<>>, message |-> <<>>,
          messageIdUsed |-> NullId]

NoTranslate == [kind |-> "none", targetId |-> NullId]

NoResponse == [status |-> "none", value |-> <<>>, message |-> ""]

NoMessage == [id |-> NullId, hasAttachments |-> FALSE]

Failure(status, error) ==
    [status |-> status, success |-> FALSE, error |-> error, message |-> <<>>,
     messageIdUsed |-> NullId]

\* the handler's locals, as one value
Cur ==
    [pc |-> pc, calls |-> calls, translateResponse |-> translateResponse,
     messageIdToProcess |-> messageIdToProcess,
     initialODataFilter |-> initialODataFilter, response |-> response,
     validatedMessages |-> validatedMessages, message |-> message,
     attachments |-> attachments, attIdx |-> attIdx,
     attachErrors |-> attachErrors,
     draftMessage |-> draftMessage, res |-> res]

Becomes(s) ==
    /\ pc' = s.pc
    /\ calls' = s.calls
    /\ translateResponse' = s.translateResponse
    /\ messageIdToProcess' = s.messageIdToProcess
    /\ initialODataFilter' = s.initialODataFilter
    /\ response' = s.response
    /\ validatedMessages' = s.validatedMessages
    /\ message' = s.message
    /\ attachments' = s.attachments
    /\ attIdx' = s.attIdx
    /\ attachErrors' = s.attachErrors
    /\ draftMessage' = s.draftMessage
    /\ res' = s.res
    /\ UNCHANGED <<variant, req, context>>

\* context.res = {...}; return;
respond(s, r) == [s EXCEPT !.pc = "done", !.res = r]

\* await client.api(...)...: the call is issued and the handler parks at `label`
issue(s, label, call) == [s EXCEPT !.pc = label, !.calls = Append(@, call)]

\* `${x}` in a template literal: undefined prints as the text undefined
template(x) == x

\* const message = await client.api(`/me/messages/${messageIdToProcess}`).select(...).get()
processMessage(s) ==
    issue(s, "get", Call("get", s.messageIdToProcess, <<>>, NoData))

\* throw new Error("Search requires at least ...") caught by catch (searchError)
tooBroadMessage(v) ==
    IF v = "legacy"
    THEN <<"Search requires at least a subject or a content snippet to be specified for filtering.">>
    ELSE <<"Search requires at least a subject or recipients to be specified for filtering.">>

searchErrorRes(msg) ==
    Failure(500, <<"Error searching for message via metadata: ">> \o msg)

notFoundRes(v, r) ==
    Failure(404,
        <<"No message found via metadata search matching criteria (Subject: ">>
        \o template(r.subject) \o <<", Recipients: ">> \o template(r.recipients)
        \o (IF v = "legacy" THEN <<", ContentSnippet provided)">> ELSE <<")">>))

\* messageIdToProcess = await searchMessageByMetadata(...), up to its await:
\* the filter is built, and the call is issued unless the filter is empty
metadataSearch(s) ==
    LET parts == initialODataFilterParts(variant, req)
        filter == joinAnd(parts)
    IN IF Len(parts) = 0
       THEN respond(s, searchErrorRes(tooBroadMessage(variant)))
       ELSE issue([s EXCEPT !.initialODataFilter = filter], "list",
                  Call("list", NullId, filter, NoData))

\* if (!messageIdToProcess) { status 400 } else proceed
checkMessageId(s) ==
    IF Falsy(s.messageIdToProcess)
    THEN respond(s, Failure(400,
            <<"No valid message ID to process. Please check EWS ID or search criteria.">>))
    ELSE processMessage(s)

\* the search started whenever the flag is set, translated id or not
afterTranslate_AlwaysSearch(s) ==
    IF req.useMetadataSearch THEN metadataSearch(s) ELSE checkMessageId(s)

\* the search started whenever no id was obtained, flag or not
afterTranslate_IgnoreFlag(s) ==
    IF Falsy(s.messageIdToProcess) THEN metadataSearch(s) ELSE checkMessageId(s)

\* if (!messageIdToProcess && useMetadataSearch) { search } ... (legacy variant)
afterTranslate(s) ==
    IF Falsy(s.messageIdToProcess) /\ req.useMetadataSearch
    THEN metadataSearch(s)
    ELSE checkMessageId(s)

\* the handler without the return of its not-found branch
searchReturned_NoReturn(s, value) ==
    LET validated == validate(variant, req, value)
    IN processMessage([s EXCEPT
           !.response = [status |-> "ok", value |-> value, message |-> ""],
           !.validatedMessages = validated,
           !.messageIdToProcess = searchResult(validated)])

\* a handler that tells "no candidate" from "no candidate validated"
searchReturned_TellsApart(s, value) ==
    LET validated == validate(variant, req, value)
        id == searchResult(validated)
        s1 == [s EXCEPT !.response = [status |-> "ok", value |-> value, message |-> ""],
                        !.validatedMessages = validated,
                        !.messageIdToProcess = id]
    IN IF Falsy(id)
       THEN respond(s1, IF value = <<>> THEN notFoundRes(variant, req)
                        ELSE Failure(400, <<"No candidate passed validation">>))
       ELSE processMessage(s1)

\* the rest of searchMessageByMetadata once the list call has returned, and
\* the handler's if (messageIdToProcess) ... else { status 404; return }
searchReturned(s, value) ==
    LET validated == validate(variant, req, value)
        id == searchResult(validated)
        s1 == [s EXCEPT !.response = [status |-> "ok", value |-> value, message |-> ""],
                        !.validatedMessages = validated,
                        !.messageIdToProcess = id]
    IN IF Falsy(id) THEN respond(s1, notFoundRes(variant, req))
       ELSE processMessage(s1)

\* err.message.toLowerCase().includes("restriction or sort order is too complex")
tooComplex(msg) == msg = "restriction or sort order is too complex"

\* the error the catch (err) of searchMessageByMetadata ends with.  The legacy
\* variant logs the too-complex error through context.log.error without
\* testing context: without a context that statement throws a TypeError, and
\* the throw new Error(...) after it is never reached.
raisedError(v, ctx, msg) ==
    IF v = "legacy" /\ tooComplex(msg) /\ ~ctx
    THEN <<"Cannot read properties of undefined (reading 'log')">>
    ELSE <<"Error in searchMessageByMetadata: ", msg>>

\* a resolver that answers the too-complex error with a second list call on
\* the first filter part alone
searchFailed_Retry(s, msg) ==
    IF msg = "restriction or sort order is too complex" /\ s.response.status = "none"
    THEN issue([s EXCEPT !.response = [status |-> "retry", value |-> <<>>, message |-> msg]],
               "list", Call("list", NullId, initialODataFilterParts(variant, req)[1], NoData))
    ELSE respond([s EXCEPT !.response = [status |-> "error", value |-> <<>>, message |-> msg]],
                 searchErrorRes(<<"Error in searchMessageByMetadata: ", msg>>))

\* catch (err) { throw new Error(`Error in searchMessageByMetadata: ${err.message}`) }
searchFailed(s, msg) ==
    respond([s EXCEPT !.response = [status |-> "error", value |-> <<>>, message |-> msg]],
            searchErrorRes(raisedError(variant, context, msg)))

\* a check that accepts any authorization header
hasBearer_AnyScheme(authorization) == Truthy(authorization)

\* const authHeader = req.headers.authorization || '';  authHeader.startsWith('Bearer ')
hasBearer(authorization) ==
    LET authHeader == IF Truthy(authorization) THEN authorization ELSE <<>>
        prefix == <<"B", "e", "a", "r", "e", "r", " ">>
    IN Len(authHeader) >= Len(prefix) /\ SubSeq(authHeader, 1, Len(prefix)) = prefix

\* ewsItemId && typeof ewsItemId === 'string' && ewsItemId.trim()
ewsIdSupplied(r) == Truthy(r.ewsItemId) /\ trim(r.ewsItemId) # <<>>

\* a handler that searches whenever it has no legacy id, flag or not
start_SearchWithoutId(s) ==
    IF ~hasBearer(req.authorization)
    THEN respond(s, Failure(401, <<"Unauthorized: No token provided">>))
    ELSE IF variant = "legacy"
         THEN IF ewsIdSupplied(req)
              THEN issue(s, "translate", Call("translate", NullId, req.ewsItemId, NoData))
              ELSE metadataSearch(s)
         ELSE metadataSearch(s)

\* the handler from its entry up to its first await
start(s) ==
    IF ~hasBearer(req.authorization)
    THEN respond(s, Failure(401, <<"Unauthorized: No token provided">>))
    ELSE IF variant = "legacy"
         THEN IF ewsIdSupplied(req)
              THEN issue(s, "translate", Call("translate", NullId, req.ewsItemId, NoData))
              ELSE afterTranslate(s)
         ELSE metadataSearch(s)

\* translateExchangeIds returned
translateReturned(s, tr) ==
    LET id == IF tr.kind = "value" THEN tr.targetId ELSE NullId
    IN afterTranslate([s EXCEPT !.translateResponse = tr, !.messageIdToProcess = id])

\* catch (convertError) that never falls back to the metadata search
translateFailed_NoFallback(s, msg) ==
    respond([s EXCEPT !.translateResponse = [kind |-> "threw", targetId |-> NullId]],
            Failure(400, <<"Failed to convert EWS ID: ", msg>>))

\* catch (convertError)
translateFailed(s, msg) ==
    LET s1 == [s EXCEPT !.translateResponse = [kind |-> "threw", targetId |-> NullId]]
    IN IF ~req.useMetadataSearch
       THEN respond(s1, Failure(400, <<"Failed to convert EWS ID: ", msg>>))
       ELSE afterTranslate(s1)

-----------------------------------------------------------------------------
(* The handler: forwarding the resolved message *)

\* a chain that posts every attachment of a known type, payload or not
postable_TypeOnly(a) == a.type \in {"file", "item", "reference"}

\* the if / else-if chain on attachment["@odata.type"]: is the attachment posted?
postable(a) ==
    \/ a.type = "file" /\ a.contentBytes
    \/ a.type = "item" /\ a.item
    \/ a.type = "reference" /\ a.sourceUrl /\ a.providerType

\* const attachmentData = {...} with the payload fields the chain copies
attachmentData(a) ==
    [name |-> a.name,
     type |-> a.type,
     contentBytes |-> a.type = "file" /\ a.contentBytes,
     item |-> a.type = "item" /\ a.item,
     sourceUrl |-> a.type = "reference" /\ a.sourceUrl /\ a.providerType,
     providerType |-> a.type = "reference" /\ a.sourceUrl /\ a.providerType]

\* await client.api(`/me/messages/${draftMessage.id}/send`).post({})
sendDraft(s) == issue(s, "send", Call("send", s.draftMessage, <<>>, NoData))

\* a loop that stops at the first attachment it does not post
copyAttachments_StopAtSkipped(s, i) ==
    IF i > Len(s.attachments) THEN sendDraft(s)
    ELSE IF postable(s.attachments[i])
         THEN issue([s EXCEPT !.attIdx = i], "attach",
                    Call("attach", s.draftMessage, <<>>, attachmentData(s.attachments[i])))
    ELSE sendDraft(s)

\* a loop that posts every remaining attachment without awaiting any answer
RECURSIVE postAll(_, _)
postAll(s, i) ==
    IF i > Len(s.attachments) THEN s
    ELSE IF postable(s.attachments[i])
         THEN postAll([s EXCEPT !.attIdx = i,
                                !.calls = Append(@, Call("attach", s.draftMessage, <<>>,
                                                         attachmentData(s.attachments[i])))],
                      i + 1)
    ELSE postAll(s, i + 1)

copyAttachments_FanOut(s, i) ==
    LET s1 == postAll(s, i)
    IN IF s1.calls = s.calls THEN sendDraft(s) ELSE [s1 EXCEPT !.pc = "attach"]

\* for (const attachment of attachments), from index i up to the next await
RECURSIVE copyAttachments(_, _)
copyAttachments(s, i) ==
    IF i > Len(s.attachments) THEN sendDraft(s)
    ELSE IF postable(s.attachments[i])
         THEN issue([s EXCEPT !.attIdx = i], "attach",
                    Call("attach", s.draftMessage, <<>>, attachmentData(s.attachments[i])))
    ELSE copyAttachments(s, i + 1)

\* const draftMessage = await client.api('/me/messages').post(newMessage)
createDraft(s) == issue(s, "create", Call("create", NullId, <<>>, NoData))

\* get-message returned
messageReturned(s, m) ==
    LET s1 == [s EXCEPT !.message = m]
    IN IF m.hasAttachments
       THEN issue(s1, "attachments",
                  Call("attachments", s.messageIdToProcess, <<>>, NoData))
       ELSE createDraft(s1)

\* attachments = attachmentsResponse.value || []
attachmentsReturned(s, list) == createDraft([s EXCEPT !.attachments = list])

draftCreated(s, id) == copyAttachments([s EXCEPT !.draftMessage = id], 1)

\* the POST of one attachment returned: on to the next attachment
attachmentDone(s) == copyAttachments(s, s.attIdx + 1)

\* a failed POST of an attachment that ends the request
attachmentFailed_Abort(s) ==
    respond([s EXCEPT !.attachErrors = Append(@, s.attIdx)],
            [status |-> 500, success |-> FALSE, error |-> <<"Error adding attachment">>,
             message |-> <<>>, messageIdUsed |-> s.messageIdToProcess])

\* the POST threw: catch (attachError) logs it, and the loop goes on
attachmentFailed(s) ==
    copyAttachments([s EXCEPT !.attachErrors = Append(@, s.attIdx)], s.attIdx + 1)

\* send returned:  await client.api(`/me/messages/${messageIdToProcess}/move`).post(...)
draftSent(s) == issue(s, "move", Call("move", s.messageIdToProcess, <<>>, NoData))

\* a handler that ends after the move without setting context.res
messageMoved_NoResponse(s) == [s EXCEPT !.pc = "done"]

messageMoved(s) ==
    respond(s, [status |-> 200, success |-> TRUE, error |-> <<>>,
                message |-> <<"Email forwarded and original moved to deleted items successfully.">>,
                messageIdUsed |-> NullId])

\* a catch that takes a failed move for a success
processingFailed_MoveIgnored(s, e) ==
    IF s.pc = "move"
    THEN respond(s, [status |-> 200, success |-> TRUE, error |-> <<>>,
                     message |-> <<"Email forwarded and original moved to deleted items successfully.">>,
                     messageIdUsed |-> NullId])
    ELSE respond(s, [status |-> IF e.statusCode = 404 THEN 404 ELSE 500,
                     success |-> FALSE, error |-> <<"Error processing message">>,
                     message |-> <<>>, messageIdUsed |-> s.messageIdToProcess])

\* a catch that deletes the draft it created before it answers
processingFailed_Rollback(s, e) ==
    LET s1 == IF s.draftMessage = NullId THEN s
              ELSE [s EXCEPT !.calls = Append(@, Call("delete", s.draftMessage, <<>>, NoData))]
    IN respond(s1, [status |-> IF e.statusCode = 404 THEN 404 ELSE 500,
                    success |-> FALSE, error |-> <<"Error processing message">>,
                    message |-> <<>>, messageIdUsed |-> s.messageIdToProcess])

\* catch (processingError)
processingFailed(s, e) ==
    LET errMsg ==
            IF e.statusCode # 0 /\ e.code # ""
            THEN <<"Graph API Error (", e.code, ") for message ID ",
                   s.messageIdToProcess, ": ", e.message>>
            ELSE <<"Error processing message (ID: ", s.messageIdToProcess, "): ", e.message>>
    IN respond(s, [status |-> IF e.statusCode = 404 THEN 404 ELSE 500,
                   success |-> FALSE, error |-> errMsg, message |-> <<>>,
                   messageIdUsed |-> s.messageIdToProcess])

-----------------------------------------------------------------------------
(* The inputs: requests, and the answers of the backend *)

Variants == {"legacy", "subjrec"}

BearerToken == <<"B", "e", "a", "r", "e", "r", " ", "t">>

Request(auth, ews, subj, rcpt, snip, flag) ==
    [authorization |-> auth, ewsItemId |-> ews, subject |-> subj,
     recipients |-> rcpt, contentSnippet |-> snip, useMetadataSearch |-> flag]

Candidate(id, time, subj, rcpts) ==
    [id |-> id, receivedDateTime |-> time, subject |-> subj, toRecipients |-> rcpts]

CandidateId(i) == <<"m1", "m2", "m3", "m4", "m5", "m6">>[i]

\* requests of the whole handler
HandlerRequests(v) ==
    {Request(auth, ews, subj, rcpt, snip, flag) :
        auth \in {BearerToken, Undefined, <<"B", "a", "s", "i", "c", " ", "t">>,
                  <<"b", "e", "a", "r", "e", "r", " ", "t">>},
        ews \in IF v = "legacy" THEN {Undefined, <<" ">>, <<"e">>} ELSE {Undefined},
        subj \in {Undefined, <<" ">>, <<"a">>},
        rcpt \in {Undefined, <<" ", ";">>, <<"a">>},
        snip \in IF v = "legacy" THEN {Undefined, <<"s">>} ELSE {Undefined},
        flag \in BOOLEAN}

\* one request of each shape: with and without credential, legacy id,
\* subject, recipients and fallback flag
LiveRequests(v) ==
    {Request(auth, ews, subj, rcpt, Undefined, flag) :
        auth \in {BearerToken, Undefined},
        ews \in IF v = "legacy" THEN {Undefined, <<"e">>} ELSE {Undefined},
        subj \in {Undefined, <<"a">>},
        rcpt \in {Undefined, <<"a">>},
        flag \in BOOLEAN}

\* what the list-messages call returns to the whole handler
HandlerValues ==
    LET c1 == Candidate("m1", 1, <<"a">>, << <<"a">> >>)
        c2 == Candidate("m2", 2, <<"b">>, <<>>)
    IN {<<>>, <<c1>>, <<c2>>, <<c1, c2>>, <<c2, c1>>}

\* requests that reach searchMessageByMetadata directly
SearchRequest(subj, rcpt, snip) ==
    Request(BearerToken, Undefined, subj, rcpt, snip, TRUE)

SubjChars == {"a", "A", " ", "'"}

SubjectStrings == Str(SubjChars, MaxSubjLen) \cup {Undefined}

\* content snippets: absent, only whitespace, plain, with a quote and a
\* trailing space
SnippetStrings == {Undefined, <<" ">>, <<"s">>, <<"'", "s", " ">>}

SubjectRequests ==
    {SearchRequest(subj, rcpt, snip) :
        subj \in SubjectStrings, rcpt \in {Undefined, <<"a">>},
        snip \in SnippetStrings}

SubjectValues ==
    {<<>>} \cup
    {<<Candidate("m1", 1, subj, << <<"a">> >>)>> : subj \in SubjectStrings}

RcptChars == {"a", "B", ";", " "}

RecipientRequests ==
    {SearchRequest(subj, rcpt, <<"s">>) :
        subj \in {Undefined, <<"a">>},
        rcpt \in Str(RcptChars, MaxRcptLen) \cup {Undefined}}

RecipientLists ==
    {<<>>, << <<"a">> >>, << <<"A">> >>, << <<"b">> >>,
     << <<"a">>, <<"b">> >>, << Undefined, <<"B">>, <<"c">>, <<"a">> >>}

RecipientValues ==
    {<<>>} \cup
    {<<Candidate("m1", 1, <<"a">>, r1)>> : r1 \in RecipientLists} \cup
    {<<Candidate("m1", 1, <<"a">>, r1), Candidate("m2", 2, <<"a">>, r2)>> :
        r1 \in RecipientLists, r2 \in RecipientLists}

SelectRequests ==
    {SearchRequest(<<"a">>, rcpt, Undefined) : rcpt \in {Undefined, <<"a">>}}

\* a candidate that matches subject a and recipient a, one without recipients,
\* one with another subject
SelectShapes ==
    {[subject |-> <<"a">>, toRecipients |-> << <<"a">> >>],
     [subject |-> <<"a">>, toRecipients |-> <<>>],
     [subject |-> <<"b">>, toRecipients |-> << <<"a">> >>]}

SelectOptions ==
    {[receivedDateTime |-> time, shape |-> shape] :
        time \in 1..MaxTime, shape \in SelectShapes}

\* the candidate sequences of up to MaxCands candidates: position i carries
\* the i-th id
SelectValues ==
    {[i \in 1..n |-> Candidate(CandidateId(i), opts[i].receivedDateTime,
                               opts[i].shape.subject, opts[i].shape.toRecipients)] :
        n \in 0..MaxCands, opts \in [1..MaxCands -> SelectOptions]}

BackendErrors == {"restriction or sort order is too complex", "backend unavailable"}

TranslateOutcomes ==
    {[kind |-> "empty", targetId |-> NullId],
     [kind |-> "value", targetId |-> NullId],
     [kind |-> "value", targetId |-> "t1"],
     [kind |-> "value", targetId |-> "t2"]}

ProcessingErrors ==
    {[statusCode |-> 404, code |-> "ErrorItemNotFound", message |-> "not found"],
     [statusCode |-> 0, code |-> "", message |-> "network"]}

AttachmentKinds ==
    {[type |-> "file", contentBytes |-> TRUE, item |-> FALSE,
      sourceUrl |-> FALSE, providerType |-> FALSE],
     [type |-> "file", contentBytes |-> FALSE, item |-> TRUE,
      sourceUrl |-> FALSE, providerType |-> FALSE],
     [type |-> "reference", contentBytes |-> FALSE, item |-> FALSE,
      sourceUrl |-> TRUE, providerType |-> FALSE],
     [type |-> "other", contentBytes |-> TRUE, item |-> FALSE,
      sourceUrl |-> FALSE, providerType |-> FALSE]}

AttachmentName(i) == <<"a1", "a2", "a3", "a4">>[i]

Attachment(name, kind) ==
    [name |-> name, type |-> kind.type, contentBytes |-> kind.contentBytes,
     item |-> kind.item, sourceUrl |-> kind.sourceUrl,
     providerType |-> kind.providerType]

\* the attachment lists of up to MaxAtt attachments drawn from kinds: position
\* i carries the i-th name
AttachmentListsOf(kinds) ==
    {[i \in 1..n |-> Attachment(AttachmentName(i), ks[i])] :
        n \in 0..MaxAtt, ks \in [1..MaxAtt -> kinds]}

AttachmentLists == AttachmentListsOf(AttachmentKinds)

\* requests, candidates and attachments of the forwarding runs: one request
\* that resolves to m1, and every type with and without its payload
ForwardRequests == {SearchRequest(<<"a">>, Undefined, Undefined)}

ForwardValues == {<<Candidate("m1", 1, <<"a">>, <<>>)>>}

ForwardKinds ==
    {[type |-> "file", contentBytes |-> TRUE, item |-> FALSE,
      sourceUrl |-> FALSE, providerType |-> FALSE],
     [type |-> "file", contentBytes |-> FALSE, item |-> TRUE,
      sourceUrl |-> FALSE, providerType |-> FALSE],
     [type |-> "item", contentBytes |-> FALSE, item |-> TRUE,
      sourceUrl |-> FALSE, providerType |-> FALSE],
     [type |-> "item", contentBytes |-> TRUE, item |-> FALSE,
      sourceUrl |-> FALSE, providerType |-> FALSE],
     [type |-> "reference", contentBytes |-> FALSE, item |-> FALSE,
      sourceUrl |-> TRUE, providerType |-> TRUE],
     [type |-> "reference", contentBytes |-> FALSE, item |-> FALSE,
      sourceUrl |-> TRUE, providerType |-> FALSE],
     [type |-> "reference", contentBytes |-> FALSE, item |-> FALSE,
      sourceUrl |-> FALSE, providerType |-> TRUE],
     [type |-> "other", contentBytes |-> TRUE, item |-> TRUE,
      sourceUrl |-> TRUE, providerType |-> TRUE]}

ForwardAttachmentLists == AttachmentListsOf(ForwardKinds)

-----------------------------------------------------------------------------
(* The state machine *)

InitLocals ==
    /\ pc = "start"
    /\ calls = <<>>
    /\ translateResponse = NoTranslate
    /\ messageIdToProcess = NullId
    /\ initialODataFilter = <<>>
    /\ response = NoResponse
    /\ validatedMessages = <<>>
    /\ message = NoMessage
    /\ attachments = <<>>
    /\ attIdx = 0
    /\ attachErrors = <<>>
    /\ draftMessage = NullId
    /\ res = NoRes
    /\ answered = 0

\* an await resumes: the handler gets the answer of the call it is parked at
Resumes == answered' = answered + 1

Init ==
    /\ variant \in Variants
    /\ context = TRUE
    /\ req \in HandlerRequests(variant)
    /\ InitLocals

Start == pc = "start" /\ Becomes(start(Cur)) /\ UNCHANGED answered

TranslateReturns ==
    /\ Resumes
    /\ pc = "translate"
    /\ \E tr \in TranslateOutcomes : Becomes(translateReturned(Cur, tr))

TranslateFails ==
    /\ Resumes
    /\ pc = "translate"
    /\ \E msg \in BackendErrors : Becomes(translateFailed(Cur, msg))

ListReturnsFrom(values) ==
    /\ Resumes
    /\ pc = "list"
    /\ \E value \in values : Becomes(searchReturned(Cur, value))

ListReturns == ListReturnsFrom(HandlerValues)

ListFails ==
    /\ Resumes
    /\ pc = "list"
    /\ \E msg \in BackendErrors : Becomes(searchFailed(Cur, msg))

GetReturns ==
    /\ Resumes
    /\ pc = "get"
    /\ \E has \in BOOLEAN :
          Becomes(messageReturned(Cur, [id |-> messageIdToProcess, hasAttachments |-> has]))

AttachmentsReturnFrom(lists) ==
    /\ Resumes
    /\ pc = "attachments"
    /\ \E list \in lists : Becomes(attachmentsReturned(Cur, list))

AttachmentsReturn == AttachmentsReturnFrom(AttachmentLists)

CreateReturns == pc = "create" /\ Becomes(draftCreated(Cur, "d1")) /\ Resumes

AttachReturns == pc = "attach" /\ Becomes(attachmentDone(Cur)) /\ Resumes

AttachFails == pc = "attach" /\ Becomes(attachmentFailed(Cur)) /\ Resumes

SendReturns == pc = "send" /\ Becomes(draftSent(Cur)) /\ Resumes

MoveReturns == pc = "move" /\ Becomes(messageMoved(Cur)) /\ Resumes

ProcessingFails ==
    /\ Resumes
    /\ pc \in {"get", "attachments", "create", "send", "move"}
    /\ \E e \in ProcessingErrors : Becomes(processingFailed(Cur, e))

Next ==
    \/ Start
    \/ TranslateReturns
    \/ TranslateFails
    \/ ListReturns
    \/ ListFails
    \/ GetReturns
    \/ AttachmentsReturn
    \/ CreateReturns
    \/ AttachReturns
    \/ AttachFails
    \/ SendReturns
    \/ MoveReturns
    \/ ProcessingFails

Spec == Init /\ [][Next]_vars

\* the whole handler on one request of each shape, every awaited backend call
\* being answered in the end
InitLive ==
    /\ variant \in Variants
    /\ context = TRUE
    /\ req \in LiveRequests(variant)
    /\ InitLocals

SpecLive == InitLive /\ [][Next]_vars /\ WF_vars(Next)

\* searchMessageByMetadata on subjects of every shape
InitSubject ==
    /\ variant \in Variants
    /\ context = TRUE
    /\ req \in SubjectRequests
    /\ InitLocals

ListReturnsSubject == ListReturnsFrom(SubjectValues)

NextSubject == Start \/ ListReturnsSubject \/ ListFails

SpecSubject == InitSubject /\ [][NextSubject]_vars

\* searchMessageByMetadata on recipient strings of every shape
InitRecipients ==
    /\ variant \in Variants
    /\ context = TRUE
    /\ req \in RecipientRequests
    /\ InitLocals

ListReturnsRecipients == ListReturnsFrom(RecipientValues)

NextRecipients == Start \/ ListReturnsRecipients \/ ListFails

SpecRecipients == InitRecipients /\ [][NextRecipients]_vars

\* searchMessageByMetadata on candidate sets of every order
InitSelect ==
    /\ variant \in Variants
    /\ context = TRUE
    /\ req \in SelectRequests
    /\ InitLocals

ListReturnsSelect == ListReturnsFrom(SelectValues)

NextSelect == Start \/ ListReturnsSelect \/ ListFails

SpecSelect == InitSelect /\ [][NextSelect]_vars

\* the forwarding of a resolved message, on attachments of every kind
InitForward ==
    /\ variant \in Variants
    /\ context = TRUE
    /\ req \in ForwardRequests
    /\ InitLocals

ListReturnsForward == ListReturnsFrom(ForwardValues)

AttachmentsReturnForward == AttachmentsReturnFrom(ForwardAttachmentLists)

NextForward ==
    \/ Start
    \/ ListReturnsForward
    \/ ListFails
    \/ GetReturns
    \/ AttachmentsReturnForward
    \/ CreateReturns
    \/ AttachReturns
    \/ AttachFails
    \/ SendReturns
    \/ MoveReturns
    \/ ProcessingFails

SpecForward == InitForward /\ [][NextForward]_vars

\* searchMessageByMetadata called with and without its context argument
InitResolver ==
    /\ variant \in Variants
    /\ context \in BOOLEAN
    /\ req \in SubjectRequests
    /\ InitLocals

NextResolver == Start \/ ListReturnsSubject \/ ListFails

SpecResolver == InitResolver /\ [][NextResolver]_vars

-----------------------------------------------------------------------------
(* Vocabulary of the properties *)

\* a request field that is absent, or empty after trimming
Blank(x) == x = Undefined \/ trim(x) = <<>>

NoDiscriminatingField ==
    Blank(req.subject) /\ Blank(req.contentSnippet) /\ Blank(req.ewsItemId)

CallOps == {calls[i].op : i \in 1..Len(calls)}

MutatingOps == {"create", "attach", "send", "move"}

Failed == pc = "done" /\ ~res.success /\ res.status >= 400

\* the addresses the request expects, as a set
ExpectedAddresses ==
    IF req.recipients = Undefined THEN {}
    ELSE {toLowerCase(trim(p)) : p \in Range(split(req.recipients))} \ {<<>>}

\* the addresses of a candidate, compared case-insensitively
CandidateAddresses(m) ==
    {toLowerCase(a) : a \in Range(m.toRecipients) \ {Undefined, <<>>}}

Normalized(x) == IF x = Undefined THEN <<>> ELSE toLowerCase(trim(x))

Translated == translateResponse.kind = "value" /\ translateResponse.targetId # NullId

TranslationFailed == translateResponse.kind # "none" /\ ~Translated

\* the calls that name the message being processed
NamesProcessedMessage(c) == c.op \in {"get", "attachments", "move"}

-----------------------------------------------------------------------------
(* Properties of the whole handler (specification Spec) *)

ResolutionFailed ==
    \/ pc = "done" /\ res = searchErrorRes(tooBroadMessage(variant))
    \/ response.status = "error"
    \/ response.status = "ok" /\ validatedMessages = <<>>

C2_FailedResolutionMutatesNothing ==
    ResolutionFailed => CallOps \cap MutatingOps = {}

C2_Witness ==
    /\ response.status = "ok"
    /\ response.value # <<>>
    /\ validatedMessages = <<>>
    /\ pc = "done"
    /\ res.status = 404

\* C8: once the translation has returned a native id, no list-messages call is
\* made, and get-message, list-attachments and move name the translated id.
C8_TranslatedIdShortCircuits ==
    (variant = "legacy" /\ Translated) =>
        /\ "list" \notin CallOps
        /\ \A i \in 1..Len(calls) :
              NamesProcessedMessage(calls[i]) =>
                  calls[i].target = translateResponse.targetId

C8_Witness ==
    /\ variant = "legacy"
    /\ Translated
    /\ translateResponse.targetId = "t2"
    /\ req.useMetadataSearch
    /\ req.subject = <<"a">>
    /\ "attachments" \in CallOps
    /\ pc = "done"
    /\ res.status = 200

\* C9: a failed translation without the fallback flag ends the request at once
\* with a failure: the translation is the only backend call.
C9_FailedTranslationIsFatal ==
    (variant = "legacy" /\ TranslationFailed /\ ~req.useMetadataSearch) =>
        /\ Failed
        /\ Len(calls) = 1
        /\ calls[1].op = "translate"

C9_Witness ==
    /\ variant = "legacy"
    /\ translateResponse.kind = "empty"
    /\ ~req.useMetadataSearch
    /\ req.subject = <<"a">>
    /\ pc = "done"
    /\ res.status = 400

\* C10 (as stated): a failed translation with the fallback flag set is followed
\* by the list-messages call, and the id processed is the resolver's.
C10_FallbackSearches ==
    (variant = "legacy" /\ TranslationFailed /\ req.useMetadataSearch) =>
        /\ Len(calls) >= 2
        /\ calls[2].op = "list"
        /\ \A i \in 1..Len(calls) :
              NamesProcessedMessage(calls[i]) =>
                  /\ validatedMessages # <<>>
                  /\ calls[i].target = validatedMessages[1].id

\* C10 (amended): ... is followed by the list-messages call when the request
\* carries a subject or a content snippet, and the id processed is the
\* resolver's; with neither, the resolver fails before the call and the request
\* ends with a failure.
C10_FallbackSearches_Amended ==
    (variant = "legacy" /\ TranslationFailed /\ req.useMetadataSearch) =>
        IF Blank(req.subject) /\ Blank(req.contentSnippet)
        THEN Failed /\ Len(calls) = 1
        ELSE /\ Len(calls) >= 2
             /\ calls[2].op = "list"
             /\ \A i \in 1..Len(calls) :
                   NamesProcessedMessage(calls[i]) =>
                       /\ validatedMessages # <<>>
                       /\ calls[i].target = validatedMessages[1].id

C10_Witness ==
    /\ variant = "legacy"
    /\ translateResponse.kind = "threw"
    /\ req.useMetadataSearch
    /\ Len(calls) >= 2
    /\ calls[1].op = "translate"
    /\ calls[2].op = "list"
    /\ "move" \in CallOps
    /\ calls[Len(calls)].target = "m2"
    /\ validatedMessages[1].id = "m2"

-----------------------------------------------------------------------------
(* Properties of searchMessageByMetadata *)

Candidates == Range(response.value)

Validated == Range(validatedMessages)

RECURSIVE Permutations(_)
Permutations(s) ==
    IF s = <<>> THEN {<<>>}
    ELSE UNION {{<<s[i]>> \o p :
                    p \in Permutations(SubSeq(s, 1, i - 1) \o SubSeq(s, i + 1, Len(s)))}
                : i \in 1..Len(s)}

\* subject validation of the subject+recipients variant, as the code has it
SubjectAccepted(m) == variant = "subjrec" => subjectMatch(req.subject, m)

\* C3 (specification SpecRecipients): with a non-empty expected recipient set,
\* the id returned is never that of a candidate that lacks an expected address,
\* and a candidate that has them all is validated whatever else it has.
C3_AllExpectedRecipients ==
    (response.status = "ok" /\ ExpectedAddresses # {}) =>
        /\ \A m \in Candidates :
              m.id = messageIdToProcess => ExpectedAddresses \subseteq CandidateAddresses(m)
        /\ \A m \in Candidates :
              (ExpectedAddresses \subseteq CandidateAddresses(m) /\ SubjectAccepted(m))
                  => m \in Validated

C3_Witness ==
    /\ req.recipients = <<"a", ";", "B">>
    /\ response.status = "ok"
    /\ Len(response.value) = 2
    /\ response.value[1].toRecipients = << Undefined, <<"B">>, <<"c">>, <<"a">> >>
    /\ response.value[2].toRecipients = << <<"a">> >>
    /\ response.value[2].receivedDateTime > response.value[1].receivedDateTime
    /\ messageIdToProcess = response.value[1].id

\* C4 (specification SpecSelect): when two or more candidates are validated and
\* their timestamps differ pairwise, the id returned is that of the latest one,
\* and it is the same for every order of the candidates.
C4_LatestWhateverTheOrder ==
    (/\ response.status = "ok"
     /\ Cardinality(Validated) >= 2
     /\ \A a, b \in Validated : a # b => a.receivedDateTime # b.receivedDateTime) =>
        /\ \E m \in Validated :
              /\ m.id = messageIdToProcess
              /\ \A o \in Validated : o.receivedDateTime <= m.receivedDateTime
        /\ \A p \in Permutations(response.value) :
              searchResult(validate(variant, req, p)) = messageIdToProcess

C4_Witness ==
    /\ response.status = "ok"
    /\ Len(response.value) = 3
    /\ Cardinality(Validated) = 3
    /\ response.value[1].receivedDateTime = 2
    /\ response.value[2].receivedDateTime = 3
    /\ response.value[3].receivedDateTime = 1
    /\ messageIdToProcess = response.value[2].id

\* C5 (specification SpecSelect): after a successful list call an id is
\* returned exactly when some candidate passes the validation; it is the id of
\* a candidate that passes; otherwise the search returns null (not found).
C5_OneValidatedIdOrNone ==
    response.status = "ok" =>
        /\ messageIdToProcess # NullId
              <=> (\E m \in Candidates : passesValidation(variant, req, m))
        /\ messageIdToProcess # NullId =>
              /\ \E m \in Candidates : m.id = messageIdToProcess
              /\ \A m \in Candidates :
                    m.id = messageIdToProcess => passesValidation(variant, req, m)
        /\ messageIdToProcess = NullId =>
              /\ "get" \notin CallOps
              /\ res = notFoundRes(variant, req)

C5_Witness ==
    /\ response.status = "ok"
    /\ Len(response.value) = 2
    /\ ~passesValidation(variant, req, response.value[2])
    /\ response.value[2].receivedDateTime > response.value[1].receivedDateTime
    /\ messageIdToProcess = response.value[1].id

\* C6 (specification SpecRecipients): when the recipients of the request are
\* absent, empty or only separators and whitespace, recipient validation
\* rejects no candidate, not even one without recipients.
NoExpectedRecipient ==
    \/ req.recipients = Undefined
    \/ \A i \in 1..Len(req.recipients) : req.recipients[i] \in {";", " "}

C6_NoExpectedRecipientAcceptsAll ==
    (response.status = "ok" /\ NoExpectedRecipient) =>
        \A m \in Candidates : SubjectAccepted(m) => m \in Validated

C6_Witness ==
    /\ req.recipients = <<";", " ", ";">>
    /\ response.status = "ok"
    /\ Len(response.value) = 2
    /\ response.value[1].toRecipients = << <<"b">> >>
    /\ response.value[2].toRecipients = <<>>
    /\ Len(validatedMessages) = 2
    /\ messageIdToProcess = response.value[2].id

\* C7 (specification SpecSubject): in the subject+recipients variant a
\* candidate passes subject validation exactly when its subject, trimmed and
\* lowercased, equals the subject of the request, trimmed and lowercased.
C7_SubjectComparedNormalized ==
    (variant = "subjrec" /\ response.status = "ok" /\ Truthy(req.subject)) =>
        \A m \in Candidates :
            ExpectedAddresses \subseteq CandidateAddresses(m) =>
                (m \in Validated <=> Normalized(m.subject) = Normalized(req.subject))

-----------------------------------------------------------------------------
(* Outcomes of the handler (specification Spec) *)

\* searchMessageByMetadata has been called
ResolverReached ==
    /\ hasBearer(req.authorization)
    /\ pc \notin {"start", "translate"}
    /\ variant = "legacy" => (req.useMetadataSearch /\ ~Translated)

\* no filter part can be built from the request
InsufficientCriteria == initialODataFilterParts(variant, req) = <<>>

\* C11: a request whose resolution fails because no discriminating search
\* field reaches the resolver is answered with a status of the 4xx class, and
\* a 5xx status is only ever the answer to a failed backend call.
C11_InputErrorIsClientError ==
    /\ (ResolverReached /\ InsufficientCriteria) =>
           (pc = "done" /\ res.status \in 400..499)
    /\ (pc = "done" /\ res.status >= 500) => calls # <<>>

\* C12: when the list call returns candidates of which none is validated, the
\* caller gets exactly the outcome it gets for the same request when the call
\* returns no candidate (status 404, success false, same body), and the list
\* call is the last backend call in both cases.
C12_NotFoundAlike ==
    (response.status = "ok" /\ validatedMessages = <<>>) =>
        /\ pc = "done"
        /\ res = searchReturned(Cur, <<>>).res
        /\ res.status = 404
        /\ ~res.success
        /\ calls[Len(calls)].op = "list"

C12_Witness ==
    /\ variant = "subjrec"
    /\ response.status = "ok"
    /\ Len(response.value) = 2
    /\ validatedMessages = <<>>
    /\ pc = "done"
    /\ res.status = 404
    /\ Len(calls) = 1

BearerPrefix == <<"B", "e", "a", "r", "e", "r", " ">>

\* the authorization header is absent or does not start with the prefix
NoBearerCredential ==
    \/ req.authorization = Undefined
    \/ Len(req.authorization) < Len(BearerPrefix)
    \/ \E i \in 1..Len(BearerPrefix) : req.authorization[i] # BearerPrefix[i]

\* C13: without a bearer credential the request ends with status 401 and
\* success false, and no backend call is ever made, whatever the body holds.
C13_NoCredentialNoCall ==
    NoBearerCredential =>
        /\ calls = <<>>
        /\ pc \in {"start", "done"}
        /\ pc = "done" => (res.status = 401 /\ ~res.success)

C13_Witness ==
    /\ req.authorization = <<"B", "a", "s", "i", "c", " ", "t">>
    /\ req.subject = <<"a">>
    /\ req.useMetadataSearch
    /\ pc = "done"
    /\ res.status = 401
    /\ calls = <<>>

ListCalls == {i \in 1..Len(calls) : calls[i].op = "list"}

\* C14: at most one list-messages call is made per request; when it fails, the
\* too-complex error included, the request ends with the search-failure
\* outcome, and the failed list call is the last backend call.
C14_OneListCallNoRetry ==
    /\ Cardinality(ListCalls) <= 1
    /\ response.status = "error" =>
          /\ pc = "done"
          /\ res.status = 500
          /\ ~res.success
          /\ res.error = <<"Error searching for message via metadata: ",
                           "Error in searchMessageByMetadata: ", response.message>>
          /\ calls[Len(calls)].op = "list"

C14_Witness ==
    /\ variant = "legacy"
    /\ translateResponse.kind = "threw"
    /\ response.status = "error"
    /\ response.message = "restriction or sort order is too complex"
    /\ pc = "done"
    /\ res.status = 500
    /\ Len(calls) = 2

-----------------------------------------------------------------------------
(* Properties of the forwarding (specification SpecForward) *)

\* the place of a backend call in the handler's sequence
Rank(op) ==
    CASE op = "translate" -> 0
      [] op = "list" -> 1
      [] op = "get" -> 2
      [] op = "attachments" -> 3
      [] op = "create" -> 4
      [] op = "attach" -> 5
      [] op = "send" -> 6
      [] op = "move" -> 7

\* the position in the attachment list of the attachment a call posts
Position(c) == CHOOSE k \in 1..Len(attachments) : attachments[k].name = c.data.name

Outstanding == Len(calls) - answered

\* C15: at most one backend call is outstanding at any time, and the calls
\* are made in the order list, get, list-attachments, create-draft, the
\* create-attachment calls in the order of the attachment list, send, move.
C15_OneCallAtATimeInOrder ==
    /\ Outstanding = IF pc \in {"start", "done"} THEN 0 ELSE 1
    /\ \A i, j \in 1..Len(calls) :
          i < j =>
              IF calls[i].op = "attach" /\ calls[j].op = "attach"
              THEN Position(calls[i]) < Position(calls[j])
              ELSE Rank(calls[i].op) < Rank(calls[j].op)
    /\ "create" \in CallOps => "get" \in CallOps
    /\ "attach" \in CallOps => {"attachments", "create"} \subseteq CallOps
    /\ "send" \in CallOps => "create" \in CallOps
    /\ "move" \in CallOps => "send" \in CallOps

C15_Witness ==
    /\ pc = "done"
    /\ res.status = 200
    /\ [i \in 1..Len(calls) |-> calls[i].op] =
           <<"list", "get", "attachments", "create", "attach", "attach", "send", "move">>
    /\ calls[5].data.name = "a1"
    /\ calls[6].data.name = "a2"
    /\ answered = 8

\* the backend operations the handler has
KnownOps == {"translate", "list", "get", "attachments", "create", "attach", "send", "move"}

\* C16: no call other than the handler's eight operations is ever issued, so
\* none that deletes or undoes the draft; when send or move fails the request
\* ends at once with an error outcome and no further call: after a failed
\* send nothing is moved, after a failed move nothing is compensated.
C16_NoCompensation ==
    /\ [](/\ CallOps \subseteq KnownOps
          /\ "move" \in CallOps => "send" \in CallOps)
    /\ [][(ProcessingFails /\ pc \in {"send", "move"}) =>
              /\ pc' = "done"
              /\ Failed'
              /\ calls' = calls
              /\ draftMessage' = draftMessage]_vars

C16_Witness ==
    /\ pc = "done"
    /\ draftMessage = "d1"
    /\ "attach" \in CallOps
    /\ calls[Len(calls)].op = "send"
    /\ "move" \notin CallOps
    /\ res.status = 500
    /\ ~res.success

\* an attachment of a known type that carries the payload its type requires
Eligible(a) ==
    \/ a.type = "file" /\ a.contentBytes
    \/ a.type = "item" /\ a.item
    \/ a.type = "reference" /\ a.sourceUrl /\ a.providerType

AttachCalls == {i \in 1..Len(calls) : calls[i].op = "attach"}

\* names of the attachments a create-attachment call has been made for
PostedNames == {calls[i].data.name : i \in AttachCalls}

\* C17: after a failed create-attachment call the loop goes on with the next
\* attachment: every later eligible attachment gets its call, send is called,
\* then move, and when move returns the request ends with the success outcome.
C17_AttachmentFailureTolerated ==
    /\ [](attachErrors # <<>> =>
              /\ pc \in {"attach", "send", "move", "done"}
              /\ pc # "attach" =>
                    /\ "send" \in CallOps
                    /\ \A k \in 1..Len(attachments) :
                          Eligible(attachments[k]) => attachments[k].name \in PostedNames)
    /\ [][/\ AttachFails =>
                /\ attachErrors' # <<>>
                /\ pc' \in {"attach", "send"}
                /\ pc' = "attach" => attIdx' > attIdx
          /\ (attachErrors # <<>> /\ SendReturns) => pc' = "move"
          /\ (attachErrors # <<>> /\ MoveReturns) =>
                (pc' = "done" /\ res'.status = 200 /\ res'.success)]_vars

C17_Witness ==
    /\ Len(attachments) = 2
    /\ attachErrors = <<1>>
    /\ PostedNames = {"a1", "a2"}
    /\ "move" \in CallOps
    /\ pc = "done"
    /\ res.status = 200
    /\ res.success

KnownTypes == {"file", "item", "reference"}

\* positions of the attachments whose type marker is not a known one
UnknownTyped == {k \in 1..Len(attachments) : attachments[k].type \notin KnownTypes}

\* C18: an attachment with an unknown type marker gets no create-attachment
\* call, whatever it carries; the eligible attachments around it still get
\* theirs, send and move are still called, and when move returns the request
\* ends with the success outcome.
C18_UnknownTypeSkipped ==
    /\ [](UnknownTyped # {} =>
              /\ \A k \in UnknownTyped : attachments[k].name \notin PostedNames
              /\ pc \in {"create", "attach", "send", "move", "done"}
              /\ (draftMessage # NullId /\ pc # "attach") =>
                    /\ "send" \in CallOps
                    /\ \A k \in 1..Len(attachments) :
                          Eligible(attachments[k]) => attachments[k].name \in PostedNames)
    /\ [][/\ (UnknownTyped # {} /\ SendReturns) => pc' = "move"
          /\ (UnknownTyped # {} /\ MoveReturns) =>
                (pc' = "done" /\ res'.status = 200 /\ res'.success)]_vars

C18_Witness ==
    /\ Len(attachments) = 2
    /\ attachments[1].type = "other"
    /\ attachments[1].contentBytes
    /\ PostedNames = {"a2"}
    /\ attachErrors = <<>>
    /\ "move" \in CallOps
    /\ pc = "done"
    /\ res.status = 200

\* the attachment list up to the position the loop has reached
Visited ==
    IF draftMessage = NullId THEN {}
    ELSE IF pc = "attach" THEN 1..attIdx
    ELSE 1..Len(attachments)

\* the posted data carries the payload its type requires
CarriesPayload(d) ==
    \/ d.type = "file" /\ d.contentBytes
    \/ d.type = "item" /\ d.item
    \/ d.type = "reference" /\ d.sourceUrl /\ d.providerType

\* C19: the attachments a create-attachment call is made for are exactly the
\* attachments of a known type (file, item, reference) that carry the payload
\* of their type; a known type without its payload is skipped, and no call is
\* ever made without the payload.
C19_PostedIffEligible ==
    /\ PostedNames = {attachments[k].name : k \in {v \in Visited : Eligible(attachments[v])}}
    /\ \A i \in AttachCalls :
          /\ CarriesPayload(calls[i].data)
          /\ calls[i].data.type = attachments[Position(calls[i])].type
          /\ calls[i].target = draftMessage

C19_Witness ==
    /\ Len(attachments) = 2
    /\ attachments[1].type = "file"
    /\ ~attachments[1].contentBytes
    /\ attachments[1].item
    /\ attachments[2].type = "reference"
    /\ PostedNames = {"a2"}
    /\ attachErrors = <<>>
    /\ pc = "done"
    /\ res.status = 200

-----------------------------------------------------------------------------
(* The remote filter (specification SpecRecipients) *)

RecipientPredicate == "toRecipients/any(r: r/emailAddress/address eq "

\* the filter text holds a predicate on the recipients
NamesRecipients(filter) == \E i \in 1..Len(filter) : filter[i] = RecipientPredicate

-----------------------------------------------------------------------------
(* The filter text (specification SpecSubject) *)

\* how many times a token occurs in a filter text
Count(filter, token) == Cardinality({i \in 1..Len(filter) : filter[i] = token})

\* the discriminating fields of the legacy variant the request supplies
SuppliedFields ==
    (IF Blank(req.subject) THEN {} ELSE {"subject"})
        \cup (IF Blank(req.contentSnippet) THEN {} ELSE {"contentSnippet"})

\* C21: in the legacy variant the filter of the list call holds one
\* subject-equality clause exactly when a subject is supplied, one
\* body-contains clause exactly when a snippet is supplied (supplied: not
\* absent and not empty after trimming), the clauses are joined by 'and',
\* never by 'or', and there is no other clause.
C21_FilterIsConjunction ==
    \A i \in ListCalls :
        variant = "legacy" =>
            LET f == calls[i].arg
            IN /\ Count(f, "subject eq ") = IF "subject" \in SuppliedFields THEN 1 ELSE 0
               /\ Count(f, "contains(body/content, ") =
                      IF "contentSnippet" \in SuppliedFields THEN 1 ELSE 0
               /\ Count(f, " and ") = Cardinality(SuppliedFields) - 1
               /\ Count(f, " or ") = 0
               /\ Count(f, RecipientPredicate) = 0
               /\ "subject" \in SuppliedFields => f[1] = "subject eq "

C21_Witness ==
    /\ variant = "legacy"
    /\ req.subject = <<"a", " ">>
    /\ req.contentSnippet = <<"s">>
    /\ Len(calls) >= 1
    /\ calls[1].arg = <<"subject eq ", "'", "a", "'", " and ",
                        "contains(body/content, ", "'", "s", "'", ")">>

\* reading a quoted literal of the filter grammar from position i, the opening
\* quote already read: a doubled quote is one quote, a single quote closes
RECURSIVE parseLiteral(_, _, _)
parseLiteral(f, i, acc) ==
    IF i > Len(f) THEN [value |-> acc, next |-> i, closed |-> FALSE]
    ELSE IF f[i] = "'"
         THEN IF i + 1 <= Len(f) /\ f[i + 1] = "'"
              THEN parseLiteral(f, i + 2, Append(acc, "'"))
              ELSE [value |-> acc, next |-> i + 1, closed |-> TRUE]
    ELSE parseLiteral(f, i + 1, Append(acc, f[i]))

\* the clause that starts at position i of f opens with this head and quotes
\* a literal that reads back as value; the clause ends at the position given
ClauseReads(f, i, head, value, tail) ==
    /\ i + 1 <= Len(f)
    /\ f[i] = head
    /\ f[i + 1] = "'"
    /\ LET p == parseLiteral(f, i + 2, <<>>)
       IN /\ p.closed
          /\ p.value = value
          /\ SubSeq(f, p.next, Len(f)) = tail

\* where the clause after the first one starts: past the first ' and '
SecondClause(f) == 1 + CHOOSE k \in 1..Len(f) :
                           f[k] = " and " /\ \A j \in 1..(k - 1) : f[j] # " and "

\* C22: every literal embedded in the filter reads back, with each doubled
\* quote read as one quote, as the string it was built from with its leading
\* and trailing whitespace removed, and the literal is closed exactly where
\* its clause ends: it holds no unpaired quote.
C22_LiteralReadsBack ==
    \A i \in ListCalls :
        LET f == calls[i].arg
            subj == trim(req.subject)
            snip == trim(req.contentSnippet)
        IN IF variant = "legacy"
           THEN CASE SuppliedFields = {"subject"} ->
                         ClauseReads(f, 1, "subject eq ", subj, <<>>)
                  [] SuppliedFields = {"contentSnippet"} ->
                         ClauseReads(f, 1, "contains(body/content, ", snip, <<")">>)
                  [] SuppliedFields = {"subject", "contentSnippet"} ->
                         /\ Count(f, " and ") = 1
                         /\ ClauseReads(SubSeq(f, 1, SecondClause(f) - 2), 1,
                                        "subject eq ", subj, <<>>)
                         /\ ClauseReads(f, SecondClause(f),
                                        "contains(body/content, ", snip, <<")">>)
                  [] OTHER -> FALSE
           ELSE IF ~Blank(req.subject)
                THEN ClauseReads(f, 1, "subject eq ", subj, <<>>)
                ELSE \E a \in ExpectedAddresses :
                         ClauseReads(f, 1, RecipientPredicate, a, <<")">>)

C22_Witness ==
    /\ variant = "legacy"
    /\ req.subject = <<" ", "'">>
    /\ req.contentSnippet = <<"'", "s", " ">>
    /\ Len(calls) >= 1
    /\ calls[1].arg = <<"subject eq ", "'", "'", "'", "'", " and ",
                        "contains(body/content, ", "'", "'", "'", "s", "'", ")">>

-----------------------------------------------------------------------------
(* The logging context (specification SpecResolver) *)

\* C23: with or without a logging context the resolver ends as it does with
\* one: the same error for insufficient criteria, the same identifier or
\* none-found value after a successful list call, and the same raised error
\* after a failed one, the too-complex error included.
C23_ContextIndependent ==
    /\ (InsufficientCriteria /\ pc = "done") =>
           res = searchErrorRes(tooBroadMessage(variant))
    /\ response.status = "ok" =>
           messageIdToProcess = searchResult(validate(variant, req, response.value))
    /\ response.status = "error" =>
           res = searchErrorRes(raisedError(variant, TRUE, response.message))

-----------------------------------------------------------------------------
(* Subject validation (specification SpecSubject) *)

\* C24: in the legacy variant, when the request supplies a subject, the id
\* returned is never that of a candidate whose subject, trimmed and
\* lower-cased, differs from the subject of the request, trimmed and
\* lower-cased, whatever candidates the backend returns.
C24_LegacySubjectValidated ==
    (variant = "legacy" /\ ~Blank(req.subject) /\ response.status = "ok") =>
        \A m \in Candidates :
            m.id = messageIdToProcess => Normalized(m.subject) = Normalized(req.subject)

-----------------------------------------------------------------------------
(* Outcome and termination of the handler (specification Spec) *)

\* the identifier the resolution ended with
ResolvedId ==
    IF Translated THEN translateResponse.targetId
    ELSE IF validatedMessages # <<>> THEN validatedMessages[1].id
    ELSE NullId

\* position of the call of an operation, 0 when there is none
CallAt(op) ==
    IF op \in CallOps THEN CHOOSE i \in 1..Len(calls) : calls[i].op = op ELSE 0

\* C25: the success outcome (200, success true) exists only once get-message,
\* create-draft, send and move have been called in that order and answered,
\* get and move on the resolved identifier and send on the created draft; it
\* is produced by the return of move alone, and a failure of get, list
\* attachments, create, send or move ends the request with success false.
C25_SuccessOnlyAfterAllCalls ==
    /\ [](res.success =>
              /\ pc = "done"
              /\ res.status = 200
              /\ answered = Len(calls)
              /\ 0 < CallAt("get")
              /\ CallAt("get") < CallAt("create")
              /\ CallAt("create") < CallAt("send")
              /\ CallAt("send") < CallAt("move")
              /\ CallAt("move") = Len(calls)
              /\ ResolvedId # NullId
              /\ calls[CallAt("get")].target = ResolvedId
              /\ calls[CallAt("move")].target = ResolvedId
              /\ draftMessage # NullId
              /\ calls[CallAt("send")].target = draftMessage)
    /\ [][/\ ProcessingFails => (pc' = "done" /\ ~res'.success /\ res'.status \in {404, 500})
          /\ res'.success # res.success => MoveReturns
          /\ res.status = 200 <=> res.success]_vars

C25_Witness ==
    /\ pc = "done"
    /\ res.success
    /\ res.status = 200
    /\ translateResponse.kind = "threw"
    /\ ResolvedId = "m2"
    /\ "attach" \in CallOps
    /\ calls[Len(calls)].op = "move"
    /\ calls[Len(calls)].target = "m2"

\* C26 (specification SpecLive): when every backend call is answered, every
\* request ends, and it ends with a response that carries a status and a
\* success flag; the response is set exactly when the request ends, and once
\* set it never changes.
C26_EveryRequestAnswered ==
    /\ <>(pc = "done")
    /\ [](/\ pc = "done" <=> res # NoRes
          /\ res # NoRes =>
                /\ res.status \in {200, 400, 401, 404, 500}
                /\ res.success \in BOOLEAN
                /\ res.success <=> res.status = 200)
    /\ [][res # NoRes => res' = res]_vars

C26_Witness ==
    /\ variant = "legacy"
    /\ translateResponse.kind = "threw"
    /\ ~req.useMetadataSearch
    /\ pc = "done"
    /\ res.status = 400
    /\ res.error = <<"Failed to convert EWS ID: ", "backend unavailable">>

\* C27: in the legacy variant the list call is made only with the fallback
\* flag set and no native id obtained from the translation; a request with a
\* subject or a snippet, but with no legacy id and without the flag, ends with
\* a 4xx outcome and no backend call.
C27_SearchOnlyAsFallback ==
    variant = "legacy" =>
        /\ "list" \in CallOps => (req.useMetadataSearch /\ ~Translated)
        /\ (/\ ~Blank(req.subject) \/ ~Blank(req.contentSnippet)
            /\ Blank(req.ewsItemId)
            /\ ~req.useMetadataSearch) =>
               /\ calls = <<>>
               /\ pc \in {"start", "done"}
               /\ pc = "done" => (res.status \in 400..499 /\ ~res.success)

C27_Witness ==
    /\ variant = "legacy"
    /\ hasBearer(req.authorization)
    /\ req.ewsItemId = <<" ">>
    /\ ~req.useMetadataSearch
    /\ req.subject = <<"a">>
    /\ req.contentSnippet = <<"s">>
    /\ pc = "done"
    /\ res.status = 400
    /\ calls = <<>>

\* C28 (specification SpecSubject): in the subject+recipients variant a
\* subject that is empty after trimming counts as absent: the filter holds no
\* subject clause, and every candidate that passes recipient validation is
\* validated, whatever its own subject is.
C28_BlankSubjectIsAbsent ==
    (variant = "subjrec" /\ req.subject # Undefined /\ Blank(req.subject)) =>
        /\ \A i \in ListCalls : Count(calls[i].arg, "subject eq ") = 0
        /\ response.status = "ok" =>
              \A m \in Candidates :
                  ExpectedAddresses \subseteq CandidateAddresses(m) => m \in Validated

=============================================================================
